---- MODULE Spec2Model ----
(***************************************************************************)
(* Model of the powermeter-lora firmware (src/src/main.rs,                 *)
(* src/src/iec62056.rs, src/src/blinky.rs).                                *)
(*                                                                         *)
(* One main (orchestrator) task and one counter_task per S0 channel run on *)
(* a single cooperative executor: a task is only interleaved with the      *)
(* others at an .await.  mpc is the main task's position, cpc[ch] the      *)
(* position of counter_task ch.  Positions of main that are not an .await  *)
(* are steps during which no other task runs (MainSuspended is false).     *)
(*                                                                         *)
(* Widths.  The counters are u64 and a downlink payload is 8 bytes of 8    *)
(* bits.  The model keeps the 8 byte positions and the wrapping arithmetic *)
(* but gives a byte ByteBase values instead of 256, so that a u64 has      *)
(* U64Mod = ByteBase^8 values and the all-ones payload is U64Mod - 1.      *)
(* Pulses are bounded far below U64Mod, so a counter reaches the top of    *)
(* its range only through a downlink payload (or a record written after    *)
(* one), as in the program.                                                *)
(***************************************************************************)
EXTENDS Integers, Sequences, FiniteSets, TLC

\* ------------------------------------------------------------------------
\* Program constants
\* ------------------------------------------------------------------------
S0_CHANNEL_COUNT == 6
S0_IMP_PER_KWH == 800
DOWNLINK_LEN == 8
MAX_DR0_PAYLOAD == 49
TRANSMISSION_FIELDS == 9
F32_BYTES == 4
JOIN_ATTEMPT_CLAMP == 11
METER_SENTENCE_LENGTH == 64
HIGH_BYTE_MIN == 127
LINE_FEED == 10
UART_BUFFER_SIZE == 255
PERIOD_MEASURING == 500
PERIOD_TRANSMITTING == 50
PERIOD_SLEEPING == 2000
PERIOD_INITIAL == 100
U8_MAX == 2 ^ 8 - 1

Channels == 0..(S0_CHANNEL_COUNT - 1)

\* ------------------------------------------------------------------------
\* Bounds of the model
\* ------------------------------------------------------------------------
\* values of one payload byte (256 in the program)
ByteBase == 2
\* pulses a counter task counts per boot before the inputs stay quiet
MaxPulses == 2
\* join attempts of one join_network invocation that are told apart
MaxTracked == 14
\* power losses
MaxResets == 1
\* rejected join attempts after a session expiry (at boot they are unbounded)
MaxRejoinFails == 1
\* full buffers one read_meter_sentence call may discard
MaxDiscards == 2
\* unread lines in the RX buffer up to which the meter is let answer a start
\* sequence
MaxBacklog == 1

U64Mod == ByteBase ^ DOWNLINK_LEN
U64_MAX == U64Mod - 1

\* the channels whose inputs see pulses
PulseInputs == {0}

Min(a, b) == IF a < b THEN a ELSE b

\* ------------------------------------------------------------------------
\* State
\* ------------------------------------------------------------------------
VARIABLES
    S0_COUNTERS,        \* the live counters, one u64 per channel
    input,              \* level of each pulse input pin (0 low, 1 high)
    pulse,              \* the meter behind the input is in the on-phase of a pulse
    cpc,                \* position of each counter_task
    mpc,                \* position of main
    joinCaller,         \* who called join_network: "boot" or "react"
    join_attempt_count, \* join_network's local
    join_success,       \* join_network's local: was the last attempt accepted
    backoff_secs,       \* duration of the last backoff timer of the invocation
    attemptNo,          \* number of the current attempt of the invocation
    record,             \* the persistent record (counts of CounterValues)
    resp,               \* outcome of device.send
    downlink,           \* what device.take_downlink() returns
    meter_energy,       \* main's local: None or Some(total_in)
    counter_kwh,        \* main's local: the counters loaded in SENSE
    to_transmit,        \* the Transmission built in ENCODE
    send_call,          \* the arguments of the device.send call in flight
    PERIOD,             \* the blink-period signal slot
    haltCause,          \* why the program panicked
    counted,            \* increments counter_task made since boot
    completed,          \* high phases the task saw that have ended
    seen,               \* the task has seen the current high phase
    pulseCounted,       \* the task has counted during the current pulse
    mergeCount,         \* boot merges since boot
    resets,             \* power losses so far
    last_override,      \* per channel: the last downlink override and the
                        \* task's increments made before it
    rpc,                \* position of read_meter_sentence
    meter_sentence_buf, \* get_data's sentence buffer
    position,           \* read_meter_sentence's local
    chunk,              \* bytes read since the buffer was last empty
    discards,           \* times the call at hand has discarded a full buffer
    gpc,                \* position of get_data
    result,             \* get_data's local: the MeterData it returns
    raw_buf,            \* the buffer as read_meter_sentence last returned it
    rx,                 \* lines received and not yet read (the UART's RX buffer)
    wire,               \* lines the meter has still to send
    used_stale,         \* the get_data call at hand has handled a line that
                        \* answers an earlier call
    warned,             \* the get_data call at hand has logged a read error
    signalled,          \* the value last written to PERIOD since boot, and
                        \* whether a write has replaced an unconsumed value
    bpc,                \* position of blink_task
    period,             \* blink_task's local
    current_state       \* blink_task's local: the level it sets next

linkVars == <<rx, wire, used_stale, warned>>

blinkVars == <<bpc, period, current_state>>

meterVars == <<rpc, meter_sentence_buf, position, chunk, discards, gpc, result,
               raw_buf, linkVars>>

vars == <<S0_COUNTERS, input, pulse, cpc, mpc, joinCaller, join_attempt_count,
          join_success, backoff_secs, attemptNo, record, resp, downlink,
          meter_energy, counter_kwh, to_transmit, send_call, PERIOD, signalled, haltCause, counted, completed, seen, pulseCounted, mergeCount,
          resets, last_override, meterVars, blinkVars>>

pulseVars == <<input, pulse, cpc, counted, completed, seen, pulseCounted>>
joinVars == <<joinCaller, join_attempt_count, join_success, backoff_secs, attemptNo>>
cycleVars == <<resp, downlink, meter_energy, counter_kwh, to_transmit, send_call>>

\* ------------------------------------------------------------------------
\* Values
\* ------------------------------------------------------------------------
NoDownlink == [kind |-> "None"]
NoFrame == [kind |-> "None"]
NoCall == [kind |-> "None"]
NoOverride == [kind |-> "None"]
NoKwh == [kind |-> "None"]
Unset == [kind |-> "Unset"]
NoReading == [kind |-> "None"]
NoSignal == [kind |-> "None"]
NothingSignalled == [kind |-> "None", lost |-> FALSE]
NaN == [kind |-> "NaN"]

Some(v) == [kind |-> "Some", val |-> v]

Bytes(n, b) == [i \in 1..n |-> b]

\* payloads a downlink may carry: too short, too long, and 8-byte values
Payloads ==
    { Bytes(DOWNLINK_LEN - 1, 1),
      Bytes(DOWNLINK_LEN + 1, 0),
      [Bytes(DOWNLINK_LEN, 0) EXCEPT ![2] = 1],
      Bytes(DOWNLINK_LEN, ByteBase - 1) }

\* target identifiers (fport, a u8) a downlink may carry
FPorts == {0, 1, S0_CHANNEL_COUNT + 1, S0_CHANNEL_COUNT + 2}

Downlinks == [kind : {"Some"}, fport : FPorts, data : Payloads]

SendOutcomes == {"DownlinkReceived", "NoAck", "RxComplete", "SessionExpired", "Err"}
JoinOutcomes == {"JoinSuccess", "NoJoinAccept", "Err"}

\* energy-in values a completed meter read may return
MeterReadings == {1234}

ZeroRecord == [ch \in Channels |-> 0]
\* records a boot may find: none (cold start), or one written in an earlier life
InitRecords ==
    { ZeroRecord,
      [ch \in Channels |-> IF ch = 0 THEN 3 ELSE 0] }

\* [0; METER_SENTENCE_LENGTH]
EmptyBuffer == [i \in 1..METER_SENTENCE_LENGTH |-> 0]

\* an f32 as the quotient num / den
F32(num, den) == [num |-> num, den |-> den]

MeterDataNaN == [meter_id |-> 0, total_in |-> F32(0, 0), total_out |-> F32(0, 0)]

\* MeterData::default()
MeterDataDefault == [meter_id |-> 0, total_in |-> F32(0, 1), total_out |-> F32(0, 1)]

\* ------------------------------------------------------------------------
\* Pure functions of the program
\* ------------------------------------------------------------------------
RECURSIVE LeSum(_, _)
LeSum(buf, i) ==
    IF i > Len(buf) THEN 0 ELSE buf[i] * ByteBase ^ (i - 1) + LeSum(buf, i + 1)

RECURSIVE BeSum(_, _)
BeSum(buf, i) ==
    IF i > Len(buf) THEN 0 ELSE buf[i] * ByteBase ^ (Len(buf) - i) + BeSum(buf, i + 1)

from_be_bytes(buf) == BeSum(buf, 1)

\* u64::from_le_bytes
from_le_bytes(buf) == LeSum(buf, 1)

fetch_add_lost(old, val) == old

fetch_sub(old, val) == (old - val) % U64Mod

\* AtomicU64::fetch_add: wrapping addition
fetch_add(old, val) == (old + val) % U64Mod

merge_overwrite(live, stored) == stored

merge_skip(live, stored) == live

\* the boot merge of one channel: counter.fetch_add(current_value_from_flash)
MergeValue(live, stored) == fetch_add(live, stored)

\* (data.fport - 1) as usize: a u8 subtraction, which wraps in a build
\* without overflow checks and panics in one with them
FportUnderflows(fport) == fport = 0
CounterToUpdate(fport) == IF fport = 0 THEN U8_MAX ELSE fport - 1

\* the range check of the downlink handler: counter_to_update > S0_CHANNEL_COUNT
IndexRejected(idx) == idx > S0_CHANNEL_COUNT

\* data.data.len() != 8
LenRejected(data) == Len(data) # DOWNLINK_LEN

\* S0_COUNTERS[i].store(new): overwrite
store(old, new) == new

\* 2_u64.pow(join_attempt_count)
BackoffSecs(count) == 2 ^ count

NextAttemptCountUnclamped(count) == count + 1

\* if join_attempt_count < 11 { join_attempt_count += 1 }
NextAttemptCount(count) == IF count < JOIN_ATTEMPT_CLAMP THEN count + 1 ELSE count

BreakAlways(success) == TRUE

\* if join_success { break; }
JoinBreaks(success) == success

JoinReturnRestart(caller) == "merge"

\* where join_network returns to
JoinReturn(caller) == IF caller = "boot" THEN "merge" ELSE "persist"

AfterCountRearmed == "wait_high"

\* after the increment the task waits for the low level
AfterCount == "wait_low"

\* size_of::<Transmission>(): nine f32 fields
SizeOfTransmission == TRANSMISSION_FIELDS * F32_BYTES

\* the fields of a Transmission in declaration order
FieldsOf(t) ==
    <<t.flash_wear_fraction, t.temperature, t.main_meter_kwh>> \o
    [i \in 1..S0_CHANNEL_COUNT |-> t.counter_kwh[i - 1]]

encode_f32_varint(x) ==
    IF x = [kind |-> "NaN"] THEN <<[of |-> x, byte |-> 1]>>
    ELSE [i \in 1..F32_BYTES |-> [of |-> x, byte |-> i]]

\* bincode writes an f32 as its four bytes, whatever the value
encode_f32(x) == [i \in 1..F32_BYTES |-> [of |-> x, byte |-> i]]

RECURSIVE EncodeFields(_)
EncodeFields(fields) ==
    IF fields = <<>> THEN <<>>
    ELSE encode_f32(Head(fields)) \o EncodeFields(Tail(fields))

\* encode_into_slice(to_transmit, &mut transmission_buf, config::standard())
encode_into_slice(t) == EncodeFields(FieldsOf(t))

\* the arguments of device.send(&transmission_buf, 1, false)
SEND_FPORT == 1
SendConfirmedRequested == TRUE
SEND_CONFIRMED == FALSE
SendCall(buf) ==
    [kind |-> "Some", buf |-> buf, fport |-> SEND_FPORT, confirmed |-> SEND_CONFIRMED]

\* current_counter_value as f32 / S0_IMP_PER_KWH[i]
Kwh(count) == [num |-> count, den |-> S0_IMP_PER_KWH]

SendArmContinue == "sense"

\* the NoAck, RxComplete, Err and empty-downlink arms fall through to the
\* end of the block
AfterSendArm == "persist"

TransmissionZeroOnTimeout(energy, kwh) ==
    [kind |-> "Some",
     flash_wear_fraction |-> [kind |-> "F32", val |-> "exhaustion"],
     temperature |-> [kind |-> "F32", val |-> "temperature"],
     main_meter_kwh |-> IF energy.kind = "None" THEN [kind |-> "F32", val |-> 0] ELSE energy,
     counter_kwh |-> kwh]

\* the Transmission built in ENCODE
Transmission(energy, kwh) ==
    [kind |-> "Some",
     flash_wear_fraction |-> [kind |-> "F32", val |-> "exhaustion"],
     temperature |-> [kind |-> "F32", val |-> "temperature"],
     main_meter_kwh |-> IF energy.kind = "None" THEN NaN ELSE energy,
     counter_kwh |-> kwh]

signal_if_empty(slot, val) == IF slot.kind = "Some" THEN slot ELSE [kind |-> "Some", val |-> val]

\* Signal::signal: the slot holds val, whatever it held
signal(slot, val) == [kind |-> "Some", val |-> val]

\* the record of a write of val to a slot
Written(slot, val) ==
    [kind |-> "Some", val |-> val, lost |-> signalled.lost \/ slot.kind = "Some"]

\* main is at an .await: the executor may run the counter tasks
MainSuspended ==
    /\ mpc \in {"join", "backoff", "merge", "meter_wait", "temp_wait", "send_wait", "sleep_wait"}
    /\ mpc = "meter_wait" => rx = <<>>

\* the phase of the uplink cycle main is in
Phase ==
    CASE mpc \in {"sense", "meter_wait", "temp_wait"} -> "SENSE"
      [] mpc = "encode" -> "ENCODE"
      [] mpc = "send_wait" -> "SEND"
      [] mpc = "react" -> "REACT"
      [] mpc \in {"join", "backoff"} /\ joinCaller = "react" -> "REACT"
      [] mpc = "persist" -> "PERSIST"
      [] mpc = "sleep_wait" -> "SLEEP"
      [] mpc = "halted" -> "HALT"
      [] OTHER -> "BOOT"

\* ------------------------------------------------------------------------
\* Initial state: peripherals initialised, tasks spawned, join_network called
\* ------------------------------------------------------------------------
Init ==
    /\ S0_COUNTERS = [ch \in Channels |-> 0]
    /\ input = [ch \in PulseInputs |-> 0]
    /\ pulse = [ch \in PulseInputs |-> FALSE]
    /\ cpc = [ch \in PulseInputs |-> "settle"]
    /\ mpc = "join"
    /\ joinCaller = "boot"
    /\ join_attempt_count = 0
    /\ join_success = FALSE
    /\ backoff_secs = 0
    /\ attemptNo = 1
    /\ record \in InitRecords
    /\ resp = "none"
    /\ downlink = NoDownlink
    /\ meter_energy = Unset
    /\ counter_kwh = NoKwh
    /\ to_transmit = NoFrame
    /\ send_call = NoCall
    /\ PERIOD = NoSignal
    /\ signalled = NothingSignalled
    /\ bpc = "toggle"
    /\ period = PERIOD_INITIAL
    /\ current_state = FALSE
    /\ haltCause = "none"
    /\ counted = [ch \in PulseInputs |-> 0]
    /\ completed = [ch \in PulseInputs |-> 0]
    /\ seen = [ch \in PulseInputs |-> FALSE]
    /\ pulseCounted = [ch \in PulseInputs |-> FALSE]
    /\ mergeCount = 0
    /\ resets = 0
    /\ last_override = [ch \in PulseInputs |-> NoOverride]
    /\ rpc = "idle"
    /\ meter_sentence_buf = EmptyBuffer
    /\ position = 0
    /\ chunk = <<>>
    /\ discards = 0
    /\ gpc = "idle"
    /\ result = MeterDataDefault
    /\ raw_buf = EmptyBuffer
    /\ rx = <<>>
    /\ wire = <<>>
    /\ used_stale = FALSE
    /\ warned = FALSE

mainVars == <<mpc, joinVars, record, cycleVars, PERIOD, signalled, haltCause, mergeCount>>

\* ------------------------------------------------------------------------
\* The pulse inputs (environment)
\* ------------------------------------------------------------------------
\* a high phase the task has seen ends when the level falls
Fallen(ch) ==
    IF input[ch] = 1 /\ seen[ch]
    THEN [completed EXCEPT ![ch] = @ + 1]
    ELSE completed

\* the meter starts a pulse: the input goes high
PulseStart(ch) ==
    /\ ~pulse[ch]
    /\ counted[ch] < MaxPulses
    /\ pulse' = [pulse EXCEPT ![ch] = TRUE]
    /\ input' = [input EXCEPT ![ch] = 1]
    /\ seen' = [seen EXCEPT ![ch] = FALSE]
    /\ pulseCounted' = [pulseCounted EXCEPT ![ch] = FALSE]
    /\ UNCHANGED <<S0_COUNTERS, cpc, counted, completed, mainVars, resets, last_override, meterVars, blinkVars>>

\* the input bounces low during the pulse
BounceLow(ch) ==
    /\ pulse[ch]
    /\ input[ch] = 1
    /\ input' = [input EXCEPT ![ch] = 0]
    /\ completed' = Fallen(ch)
    /\ UNCHANGED <<S0_COUNTERS, pulse, cpc, counted, seen, pulseCounted, mainVars, resets, last_override, meterVars, blinkVars>>

\* the input bounces back high during the pulse
BounceHigh(ch) ==
    /\ pulse[ch]
    /\ input[ch] = 0
    /\ counted[ch] < MaxPulses
    /\ input' = [input EXCEPT ![ch] = 1]
    /\ seen' = [seen EXCEPT ![ch] = FALSE]
    /\ UNCHANGED <<S0_COUNTERS, pulse, cpc, counted, completed, pulseCounted, mainVars, resets, last_override, meterVars, blinkVars>>

\* the meter ends the pulse: the input goes (or stays) low
PulseEnd(ch) ==
    /\ pulse[ch]
    /\ pulse' = [pulse EXCEPT ![ch] = FALSE]
    /\ input' = [input EXCEPT ![ch] = 0]
    /\ completed' = Fallen(ch)
    /\ UNCHANGED <<S0_COUNTERS, cpc, counted, seen, pulseCounted, mainVars, resets, last_override, meterVars, blinkVars>>

\* ------------------------------------------------------------------------
\* counter_task
\* ------------------------------------------------------------------------
\* Timer::after(10 ms) has elapsed
Settle(ch) ==
    /\ MainSuspended
    /\ cpc[ch] = "settle"
    /\ cpc' = [cpc EXCEPT ![ch] = "wait_high"]
    /\ UNCHANGED <<S0_COUNTERS, input, pulse, counted, completed, seen, pulseCounted,
                   mainVars, resets, last_override, meterVars, blinkVars>>

\* input.wait_for_high() returns; our_counter.fetch_add(1)
CountHigh(ch) ==
    /\ MainSuspended
    /\ cpc[ch] = "wait_high"
    /\ input[ch] = 1
    /\ S0_COUNTERS' = [S0_COUNTERS EXCEPT ![ch] = fetch_add(@, 1)]
    /\ cpc' = [cpc EXCEPT ![ch] = AfterCount]
    /\ counted' = [counted EXCEPT ![ch] = @ + 1]
    /\ seen' = [seen EXCEPT ![ch] = TRUE]
    /\ pulseCounted' = [pulseCounted EXCEPT ![ch] = TRUE]
    /\ UNCHANGED <<input, pulse, completed, mainVars, resets, last_override, meterVars, blinkVars>>

\* input.wait_for_low() returns
SeeLow(ch) ==
    /\ MainSuspended
    /\ cpc[ch] = "wait_low"
    /\ input[ch] = 0
    /\ cpc' = [cpc EXCEPT ![ch] = "wait_high"]
    /\ UNCHANGED <<S0_COUNTERS, input, pulse, counted, completed, seen, pulseCounted,
                   mainVars, resets, last_override, meterVars, blinkVars>>

\* ------------------------------------------------------------------------
\* join_network
\* ------------------------------------------------------------------------
\* join_network is entered: join_attempt_count = 0, first device.join
EnterJoin(caller) ==
    /\ joinCaller' = caller
    /\ join_attempt_count' = 0
    /\ join_success' = FALSE
    /\ backoff_secs' = 0
    /\ attemptNo' = 1

\* device.join(...).await returns r
JoinResp(r) ==
    /\ mpc = "join"
    /\ r # "JoinSuccess" => (joinCaller = "boot" \/ attemptNo <= MaxRejoinFails)
    /\ join_success' = (r = "JoinSuccess")
    /\ IF JoinBreaks(join_success')
       THEN /\ mpc' = JoinReturn(joinCaller)
            /\ UNCHANGED backoff_secs
       ELSE /\ mpc' = "backoff"
            /\ backoff_secs' = BackoffSecs(join_attempt_count)
    /\ UNCHANGED <<S0_COUNTERS, pulseVars, joinCaller, join_attempt_count, attemptNo,
                   record, cycleVars, PERIOD, signalled, haltCause, mergeCount,
                   resets, last_override, meterVars, blinkVars>>

\* Timer::after_secs(..).await returns; the attempt count is clamped
BackoffDone ==
    /\ mpc = "backoff"
    /\ join_attempt_count' = NextAttemptCount(join_attempt_count)
    /\ attemptNo' = Min(attemptNo + 1, MaxTracked)
    /\ mpc' = "join"
    /\ UNCHANGED <<S0_COUNTERS, pulseVars, joinCaller, join_success, backoff_secs,
                   record, cycleVars, PERIOD, signalled, haltCause, mergeCount,
                   resets, last_override, meterVars, blinkVars>>

\* ------------------------------------------------------------------------
\* main: boot
\* ------------------------------------------------------------------------
\* persistent_storage.read().await returns; every counter fetch_adds its stored value
BootMerge ==
    /\ mpc = "merge"
    /\ S0_COUNTERS' = [ch \in Channels |-> MergeValue(S0_COUNTERS[ch], record[ch])]
    /\ mergeCount' = mergeCount + 1
    /\ mpc' = "uart_init"
    /\ UNCHANGED <<pulseVars, joinVars, record, cycleVars, PERIOD, signalled, haltCause, resets, last_override, meterVars, blinkVars>>

\* EnergyMeter::new; the loop is entered
InitMeter ==
    /\ mpc = "uart_init"
    /\ mpc' = "sense"
    /\ UNCHANGED <<S0_COUNTERS, pulseVars, joinVars, record, cycleVars, PERIOD, signalled,
                   haltCause, mergeCount, resets, last_override, meterVars, blinkVars>>

\* ------------------------------------------------------------------------
\* main: the uplink cycle
\* ------------------------------------------------------------------------
\* SENSE begins: PERIOD.signal(500 ms), the meter read is started under its timeout
SenseBegin ==
    /\ mpc = "sense"
    /\ PERIOD' = signal(PERIOD, PERIOD_MEASURING)
    /\ signalled' = Written(PERIOD, PERIOD_MEASURING)
    /\ mpc' = "meter_wait"
    /\ UNCHANGED <<S0_COUNTERS, pulseVars, joinVars, record, cycleVars, haltCause, mergeCount, resets, last_override, blinkVars>>

\* SENSE begins, the meter reader summarised by what MeterDone returns
SenseStart ==
    /\ SenseBegin
    /\ UNCHANGED meterVars

MeterReadRetried == "sense"

\* the match on with_timeout's result is followed by analog_data_future.await
AfterMeterRead == "temp_wait"

\* with_timeout(METER_TIMEOUT, get_data()) returns: Err (timeout) or Ok(result)
MeterReturn(m) ==
    /\ mpc = "meter_wait"
    /\ meter_energy' = m
    /\ mpc' = AfterMeterRead
    /\ UNCHANGED <<S0_COUNTERS, pulseVars, joinVars, record, resp, downlink,
                   counter_kwh, to_transmit, send_call, PERIOD, signalled, haltCause,
                   mergeCount, resets, last_override, blinkVars>>

\* the meter read ends with m, the meter reader summarised by m
MeterDone(m) ==
    /\ MeterReturn(m)
    /\ UNCHANGED meterVars

\* the temperature future completes; the counters are loaded and converted
TempDone ==
    /\ mpc = "temp_wait"
    /\ counter_kwh' = Some([ch \in Channels |-> Kwh(S0_COUNTERS[ch])])
    /\ mpc' = "encode"
    /\ UNCHANGED <<S0_COUNTERS, pulseVars, joinVars, record, resp, downlink,
                   meter_energy, to_transmit, send_call, PERIOD, signalled, haltCause,
                   mergeCount, resets, last_override, meterVars, blinkVars>>

\* ENCODE: PERIOD.signal(50 ms), the frame is built, size-checked and encoded,
\* and device.send is called
Encode ==
    /\ mpc = "encode"
    /\ PERIOD' = signal(PERIOD, PERIOD_TRANSMITTING)
    /\ signalled' = Written(PERIOD, PERIOD_TRANSMITTING)
    /\ LET frame == Transmission(meter_energy, counter_kwh.val)
           transmission_buf == encode_into_slice(frame)
       IN  IF \/ SizeOfTransmission > MAX_DR0_PAYLOAD
              \/ Len(transmission_buf) # SizeOfTransmission
           THEN /\ mpc' = "halted"
                /\ haltCause' = "frame_size"
                /\ UNCHANGED <<to_transmit, send_call>>
           ELSE /\ mpc' = "send_wait"
                /\ to_transmit' = frame
                /\ send_call' = SendCall(transmission_buf)
                /\ UNCHANGED haltCause
    /\ meter_energy' = Unset
    /\ counter_kwh' = NoKwh
    /\ UNCHANGED <<S0_COUNTERS, pulseVars, joinVars, record, resp, downlink, mergeCount, resets, last_override, meterVars, blinkVars>>

\* device.send(..).await returns o; dl is what take_downlink() then holds
SendDone(o, dl) ==
    /\ mpc = "send_wait"
    /\ resp' = o
    /\ downlink' = IF o = "DownlinkReceived" THEN dl ELSE NoDownlink
    /\ to_transmit' = NoFrame
    /\ send_call' = NoCall
    /\ mpc' = "react"
    /\ UNCHANGED <<S0_COUNTERS, pulseVars, joinVars, record, meter_energy,
                   counter_kwh, PERIOD, signalled, haltCause, mergeCount,
                   resets, last_override, meterVars, blinkVars>>

\* the downlink handler: Some(data) arm of take_downlink().  overflow_checks
\* says whether the build panics on integer overflow (a debug profile) or
\* wraps (a release profile).
ApplyDownlink(data, overflow_checks) ==
    IF FportUnderflows(data.fport) /\ overflow_checks
    THEN \* attempt to subtract with overflow
         /\ mpc' = "halted"
         /\ haltCause' = "sub_overflow"
         /\ UNCHANGED S0_COUNTERS
    ELSE LET counter_to_update == CounterToUpdate(data.fport) IN
         IF IndexRejected(counter_to_update)
         THEN \* error!("Invalid FPORT")
              /\ mpc' = "persist"
              /\ UNCHANGED <<S0_COUNTERS, haltCause>>
         ELSE IF LenRejected(data.data)
         THEN \* error!("Invalid data len")
              /\ mpc' = "persist"
              /\ UNCHANGED <<S0_COUNTERS, haltCause>>
         ELSE IF counter_to_update \in Channels
         THEN /\ S0_COUNTERS' = [S0_COUNTERS EXCEPT
                     ![counter_to_update] = store(@, from_le_bytes(data.data))]
              /\ mpc' = "persist"
              /\ UNCHANGED haltCause
         ELSE \* S0_COUNTERS[counter_to_update]: index out of bounds
              /\ mpc' = "halted"
              /\ haltCause' = "index_oob"
              /\ UNCHANGED S0_COUNTERS

\* the downlink at hand reaches the store of channel ch
Overrides(ch) ==
    /\ resp = "DownlinkReceived"
    /\ downlink.kind = "Some"
    /\ downlink.fport - 1 = ch
    /\ ~LenRejected(downlink.data)

\* REACT: match on the send outcome
React ==
    /\ mpc = "react"
    /\ downlink' = NoDownlink
    /\ IF resp = "DownlinkReceived" /\ downlink.kind = "Some"
       THEN /\ \E overflow_checks \in BOOLEAN : ApplyDownlink(downlink, overflow_checks)
            /\ UNCHANGED joinVars
       ELSE IF resp = "SessionExpired"
       THEN /\ EnterJoin("react")
            /\ mpc' = "join"
            /\ UNCHANGED <<S0_COUNTERS, haltCause>>
       ELSE /\ mpc' = AfterSendArm
            /\ UNCHANGED <<S0_COUNTERS, joinVars, haltCause>>
    /\ last_override' =
          [ch \in PulseInputs |->
              IF Overrides(ch)
              THEN [kind |-> "Some", val |-> S0_COUNTERS'[ch], at |-> counted[ch]]
              ELSE last_override[ch]]
    /\ UNCHANGED <<pulseVars, record, resp, meter_energy, counter_kwh, to_transmit,
                   send_call, PERIOD, signalled, mergeCount, resets, meterVars, blinkVars>>

\* PERSIST: the counters are snapshotted and written; SLEEP begins:
\* PERIOD.signal(2000 ms) and the sleep timer is started
Persist ==
    /\ mpc = "persist"
    /\ record' = [ch \in Channels |-> S0_COUNTERS[ch]]
    /\ PERIOD' = signal(PERIOD, PERIOD_SLEEPING)
    /\ signalled' = Written(PERIOD, PERIOD_SLEEPING)
    /\ mpc' = "sleep_wait"
    /\ resp' = "none"
    /\ UNCHANGED <<S0_COUNTERS, pulseVars, joinVars, downlink, meter_energy, counter_kwh,
                   to_transmit, send_call, haltCause, mergeCount, resets, last_override, meterVars, blinkVars>>

\* Timer::after(..).await returns; the next cycle begins
SleepDone ==
    /\ mpc = "sleep_wait"
    /\ mpc' = "sense"
    /\ UNCHANGED <<S0_COUNTERS, pulseVars, joinVars, record, cycleVars, PERIOD, signalled,
                   haltCause, mergeCount, resets, last_override, meterVars, blinkVars>>

\* ------------------------------------------------------------------------
\* blinky: blink_task
\* ------------------------------------------------------------------------
\* everything outside blink_task and the signal slot
outsideBlink ==
    <<S0_COUNTERS, pulseVars, mpc, joinVars, record, cycleVars, signalled, haltCause,
      mergeCount, resets, last_override, meterVars>>

\* control.gpio_set(0, current_state).await returns; current_state is
\* inverted and the wait under the period's timeout begins
BlinkToggle ==
    /\ MainSuspended
    /\ bpc = "toggle"
    /\ current_state' = ~current_state
    /\ bpc' = "wait"
    /\ UNCHANGED <<period, PERIOD, outsideBlink>>

\* PERIOD.wait() is ready: the value is taken out of the slot and adopted
BlinkAdopt ==
    /\ MainSuspended
    /\ bpc = "wait"
    /\ PERIOD.kind = "Some"
    /\ period' = PERIOD.val
    /\ PERIOD' = NoSignal
    /\ bpc' = "toggle"
    /\ UNCHANGED <<current_state, outsideBlink>>

\* the timeout of the wait expires with nothing signalled
BlinkTimeout ==
    /\ MainSuspended
    /\ bpc = "wait"
    /\ PERIOD.kind = "None"
    /\ bpc' = "toggle"
    /\ UNCHANGED <<period, current_state, PERIOD, outsideBlink>>

\* ------------------------------------------------------------------------
\* Power loss: RAM is lost, the persistent record is kept, the program boots
\* ------------------------------------------------------------------------
Reset ==
    /\ resets < MaxResets
    /\ resets' = resets + 1
    /\ S0_COUNTERS' = [ch \in Channels |-> 0]
    /\ input' = [ch \in PulseInputs |-> 0]
    /\ pulse' = [ch \in PulseInputs |-> FALSE]
    /\ cpc' = [ch \in PulseInputs |-> "settle"]
    /\ counted' = [ch \in PulseInputs |-> 0]
    /\ completed' = [ch \in PulseInputs |-> 0]
    /\ seen' = [ch \in PulseInputs |-> FALSE]
    /\ pulseCounted' = [ch \in PulseInputs |-> FALSE]
    /\ mpc' = "join"
    /\ EnterJoin("boot")
    /\ resp' = "none"
    /\ downlink' = NoDownlink
    /\ meter_energy' = Unset
    /\ counter_kwh' = NoKwh
    /\ to_transmit' = NoFrame
    /\ send_call' = NoCall
    /\ PERIOD' = NoSignal
    /\ signalled' = NothingSignalled
    /\ bpc' = "toggle"
    /\ period' = PERIOD_INITIAL
    /\ current_state' = FALSE
    /\ haltCause' = "none"
    /\ mergeCount' = 0
    /\ last_override' = [ch \in PulseInputs |-> NoOverride]
    /\ UNCHANGED <<record, meterVars>>

\* ------------------------------------------------------------------------
\* iec62056: read_meter_sentence
\* ------------------------------------------------------------------------
\* everything outside the meter reader
programVars == <<S0_COUNTERS, pulseVars, mainVars, resets, last_override, blinkVars>>

\* what uart.read(&mut buf[position..position + 1]).await returns: an error, or
\* one byte read
ReadResults ==
    {[ok |-> FALSE, byte |-> 0]} \cup {[ok |-> TRUE, byte |-> b] : b \in {LINE_FEED, 65}}

DiscardKeepsBytes(buf) == buf

\* *meter_sentence_buf = [0; METER_SENTENCE_LENGTH]
Discard(buf) == EmptyBuffer

\* position == meter_sentence_buf.len()
BufferFull(pos) == pos = METER_SENTENCE_LENGTH

\* read_meter_sentence is called: the buffer is zeroed, position = 0
ReadSentenceCall ==
    /\ rpc \in {"idle", "returned"}
    /\ gpc = "idle"
    /\ rpc' = "reading"
    /\ meter_sentence_buf' = EmptyBuffer
    /\ position' = 0
    /\ chunk' = <<>>
    /\ discards' = 0
    /\ UNCHANGED <<gpc, result, raw_buf, linkVars, programVars>>

\* one pass of the loop: uart.read(..).await returns r
ReadReturns(r) ==
    /\ rpc = "reading"
    /\ IF ~r.ok
       THEN \* warn!("UART Read error encountered!")
            UNCHANGED <<rpc, meter_sentence_buf, position, chunk, discards>>
       ELSE IF position + 1 > METER_SENTENCE_LENGTH
       THEN \* the slice [position..position + 1] is out of range
            /\ rpc' = "panicked"
            /\ UNCHANGED <<meter_sentence_buf, position, chunk, discards>>
       ELSE LET buf == [meter_sentence_buf EXCEPT ![position + 1] = r.byte]
                pos == position + 1
            IN  IF buf[pos] = LINE_FEED
                THEN /\ rpc' = "returned"
                     /\ meter_sentence_buf' = buf
                     /\ position' = pos
                     /\ chunk' = Append(chunk, r.byte)
                     /\ UNCHANGED discards
                ELSE IF BufferFull(pos)
                THEN /\ discards < MaxDiscards
                     /\ meter_sentence_buf' = Discard(buf)
                     /\ position' = 0
                     /\ chunk' = <<>>
                     /\ discards' = discards + 1
                     /\ UNCHANGED rpc
                ELSE /\ meter_sentence_buf' = buf
                     /\ position' = pos
                     /\ chunk' = Append(chunk, r.byte)
                     /\ UNCHANGED <<rpc, discards>>
    /\ UNCHANGED <<gpc, result, raw_buf, linkVars, programVars>>

NextFraming ==
    \/ ReadSentenceCall
    \/ \E r \in ReadResults : ReadReturns(r)

\* the meter reader on its own: the program before its first step, flash blank
InitMeterReader ==
    /\ Init
    /\ record = ZeroRecord

\* read_meter_sentence on every byte sequence of line feeds and other bytes
SpecFraming == InitMeterReader /\ [][NextFraming]_vars

\* ------------------------------------------------------------------------
\* iec62056: the parsers
\* ------------------------------------------------------------------------
\* the bytes of the characters the sentences below are written in
Code ==
    "(" :> 40 @@ ")" :> 41 @@ "*" :> 42 @@ "+" :> 43 @@ "." :> 46 @@ "/" :> 47 @@
    "0" :> 48 @@ "1" :> 49 @@ "2" :> 50 @@ "3" :> 51 @@ "4" :> 52 @@ "5" :> 53 @@
    "6" :> 54 @@ "7" :> 55 @@ "8" :> 56 @@ "9" :> 57 @@ "C" :> 67 @@ "W" :> 87 @@
    "a" :> 97 @@ "h" :> 104 @@ "k" :> 107 @@ "CR" :> 13 @@ "LF" :> LINE_FEED @@
    "DEL" :> 127 @@ "0xFF" :> 255

\* the bytes of a string given as its characters
Str(chars) == [i \in 1..Len(chars) |-> Code[chars[i]]]

NoValue == [kind |-> "None"]

\* str::find(c): the 1-based index of the first c in s, 0 for None
Find(s, c) ==
    IF \E i \in 1..Len(s) : s[i] = Code[c]
    THEN CHOOSE i \in 1..Len(s) : s[i] = Code[c] /\ \A j \in 1..(i - 1) : s[j] # Code[c]
    ELSE 0

IsDigit(b) == b \in Code["0"]..Code["9"]

\* the number a run of digits denotes, stopping once it passes max
RECURSIVE DigitsValue(_, _, _)
DigitsValue(digits, acc, max) ==
    IF digits = <<>> \/ acc > max THEN acc
    ELSE DigitsValue(Tail(digits), 10 * acc + (Head(digits) - Code["0"]), max)

RECURSIVE SkipNonDigits(_)
SkipNonDigits(s) ==
    IF s = <<>> THEN <<>>
    ELSE IF IsDigit(Head(s)) THEN <<Head(s)>> \o SkipNonDigits(Tail(s))
    ELSE SkipNonDigits(Tail(s))

ParseUnsignedLenient(s, max) ==
    LET v == DigitsValue(SkipNonDigits(s), 0, max)
    IN  IF v > max THEN NoValue ELSE Some(v)

\* u64::from_str / u32::from_str: an optional '+', then one or more digits,
\* the value within the type
ParseUnsigned(s, max) ==
    LET digits == IF s # <<>> /\ Head(s) = Code["+"] THEN Tail(s) ELSE s
    IN  IF digits = <<>> THEN NoValue
        ELSE IF \E i \in 1..Len(digits) : ~IsDigit(digits[i]) THEN NoValue
        ELSE IF DigitsValue(digits, 0, max) > max THEN NoValue
        ELSE Some(DigitsValue(digits, 0, max))

\* the widest value u32::from_str accepts (4 bytes)
U32_MAX == ByteBase ^ 4 - 1

\* &sentence[start + 1..start + end], start and end as Find gives them
NumericPart(sentence, start, end) == SubSeq(sentence, start + 1, start + end - 2)

parse_meter_id(sentence) ==
    LET start == Find(sentence, "(") IN
    IF start = 0 THEN NoValue
    ELSE LET end == Find(SubSeq(sentence, start, Len(sentence)), ")") IN
         IF end = 0 THEN NoValue
         ELSE ParseUnsigned(NumericPart(sentence, start, end), U64_MAX)

FracDenominatorFixed(frac_part) == 1000

\* F32Ext::powi(10f32, frac_len)
FracDenominator(frac_part) == 10 ^ Len(frac_part)

parse_energy_value(sentence) ==
    LET start == Find(sentence, "(") IN
    IF start = 0 THEN NoValue
    ELSE LET end == Find(SubSeq(sentence, start, Len(sentence)), "*") IN
         IF end = 0 THEN NoValue
         ELSE LET numeric_part == NumericPart(sentence, start, end)
                  dot_index == Find(numeric_part, ".")
              IN  IF dot_index = 0 THEN NoValue
                  ELSE LET int_part == SubSeq(numeric_part, 1, dot_index - 1)
                           frac_part == SubSeq(numeric_part, dot_index + 1, Len(numeric_part))
                           int_val == ParseUnsigned(int_part, U32_MAX)
                           frac_val == ParseUnsigned(frac_part, U32_MAX)
                       IN  IF int_val = NoValue \/ frac_val = NoValue THEN NoValue
                           ELSE Some(F32(int_val.val * FracDenominator(frac_part) + frac_val.val,
                                         FracDenominator(frac_part)))

\* ------------------------------------------------------------------------
\* iec62056: get_data
\* ------------------------------------------------------------------------
\* a line of the meter's telegram: its characters, then CR LF
Line(chars) == Str(chars) \o Str(<<"CR", "LF">>)

\* the sentences read_meter_sentence may deliver
Sentences ==
    { Line(<<"/", "a", "5">>),
      Line(<<"0", ".", "0", "(", "1", ")">>),
      Line(<<"C", ".", "1", "(", "0", "0", "7", "4", ")">>),
      Line(<<"C", ".", "1", "(", "1", "2", ")">>),
      Line(<<"C", ".", "1", "(", "0", "2", "5", "5", ")">>),
      Line(<<"C", ".", "1", "(", "3", ")", "(", "4", ")">>),
      Line(<<"C", ".", "1", "(", "+", "7", ")">>),
      Line(<<"C", ".", "1", "(", "1", "DEL", "2", ")">>),
      Line(<<"C", ".", "1", "(", "7", "a", ")">>),
      Line(<<"C", ".", "1", "(", "9", "9", "9", "9", "9", ")">>),
      Line(<<"C", ".", "1", "(", "1", "2">>),
      Line(<<"C", ".", "1", "1", "2", ")">>),
      Line(<<"C", ".", "1", "(", ")">>),
      Line(<<"C", ".", "1", "(", "7", "0xFF", ")">>),
      Line(<<"1", ".", "8", ".", "0", "(", "0", "1", "2", ".", "0", "5", "*", "k", "W", "h", ")">>),
      Line(<<"1", ".", "8", ".", "0", "(", "1", "2", ".", "5", "*", "k", "W", "h">>),
      Line(<<"1", ".", "8", ".", "0", "(", "1", ".", "+", "5", "*", "k", "W", "h", ")">>),
      Line(<<"1", ".", "8", ".", "0", "(", "1", "2", "5", "*", "k", "W", "h", ")">>),
      Line(<<"1", ".", "8", ".", "0", "(", "1", "2", ".", "5", "k", "W", "h", ")">>),
      Line(<<"1", ".", "8", ".", "0", "(", "9", "9", ".", "5", "*", "k", "W", "h", ")">>),
      Line(<<"1", ".", "8", ".", "1", "(", "3", ".", "5", "*", "k", "W", "h", ")">>),
      Line(<<"2", ".", "8", ".", "0", "(", "0", ".", "5", "*", "k", "W", "h", ")">>),
      Line(<<"2", ".", "8", ".", "0", "(", "a", ".", "5", "*", "k", "W", "h", ")">>) }

\* what read_meter_sentence leaves in the buffer for the line s
SentenceBuffer(s) ==
    [i \in 1..METER_SENTENCE_LENGTH |-> IF i <= Len(s) THEN s[i] ELSE 0]

\* if *in_byte >= 0x7F { *in_byte = 0x00 }
Sanitize(buf) ==
    [i \in 1..METER_SENTENCE_LENGTH |-> IF buf[i] >= HIGH_BYTE_MIN THEN 0 ELSE buf[i]]

\* match first_three_letters
SentenceKind(sentence) ==
    LET first_three_letters == SubSeq(sentence, 1, 3) IN
    CASE first_three_letters = Str(<<"C", ".", "1">>) -> "METER_ID"
      [] first_three_letters = Str(<<"1", ".", "8">>) -> "IN"
      [] first_three_letters = Str(<<"2", ".", "8">>) -> "OUT"
      [] OTHER -> "other"

EndsReadOutOnly(kind) == kind = "OUT"

\* the IN and OUT arms return result
EndsRead(kind) == kind \in {"IN", "OUT"}

\* the result after the arm of the sentence has run
Handled(res, sentence) ==
    CASE SentenceKind(sentence) = "METER_ID" ->
            IF parse_meter_id(sentence) = NoValue THEN res
            ELSE [res EXCEPT !.meter_id = parse_meter_id(sentence).val]
      [] SentenceKind(sentence) = "IN" ->
            IF SubSeq(sentence, 1, 5) = Str(<<"1", ".", "8", ".", "0">>)
               /\ parse_energy_value(sentence) # NoValue
            THEN [res EXCEPT !.total_in = parse_energy_value(sentence).val]
            ELSE res
      [] SentenceKind(sentence) = "OUT" ->
            IF parse_energy_value(sentence) = NoValue THEN res
            ELSE [res EXCEPT !.total_out = parse_energy_value(sentence).val]
      [] OTHER -> res

\* get_data is called: a zeroed buffer, a default result, the start sequence
\* is written
GetDataCall ==
    /\ gpc \in {"idle", "returned"}
    /\ rpc = "idle"
    /\ gpc' = "reading"
    /\ meter_sentence_buf' = EmptyBuffer
    /\ result' = MeterDataDefault
    /\ UNCHANGED <<rpc, position, chunk, discards, raw_buf, linkVars, programVars>>

\* one pass of get_data's loop: read_meter_sentence delivers the line s, the
\* high bytes are zeroed, the sentence is matched
SentenceRead(s) ==
    /\ gpc = "reading"
    /\ raw_buf' = SentenceBuffer(s)
    /\ LET sentence == Sanitize(SentenceBuffer(s)) IN
        /\ meter_sentence_buf' = sentence
        /\ result' = Handled(result, sentence)
        /\ gpc' = IF EndsRead(SentenceKind(sentence)) THEN "returned" ELSE "reading"
    /\ UNCHANGED <<rpc, position, chunk, discards, linkVars, programVars>>

\* ------------------------------------------------------------------------
\* iec62056 in main's cycle: the serial link, get_data under its timeout
\* ------------------------------------------------------------------------
\* the telegrams the meter may answer a start sequence with
Telegrams ==
    { <<Line(<<"C", ".", "1", "(", "1", "2", ")">>),
        Line(<<"1", ".", "8", ".", "0", "(", "0", "1", "2", ".", "0", "5", "*", "k", "W", "h", ")">>),
        Line(<<"2", ".", "8", ".", "0", "(", "0", ".", "5", "*", "k", "W", "h", ")">>)>>,
      <<Line(<<"1", ".", "8", ".", "1", "(", "3", ".", "5", "*", "k", "W", "h", ")">>)>>,
      <<Line(<<"1", ".", "8", ".", "0", "(", "1", "2", "5", "*", "k", "W", "h", ")">>)>> }

\* the lines of t, each marked as answering the call at hand (or not)
Marked(t, fresh) == [i \in 1..Len(t) |-> [line |-> t[i].line, fresh |-> fresh]]
Fresh(t) == [i \in 1..Len(t) |-> [line |-> t[i], fresh |-> TRUE]]

RECURSIVE RxBytes(_)
RxBytes(q) == IF q = <<>> THEN 0 ELSE Len(Head(q).line) + RxBytes(Tail(q))

\* the RX buffer has room for the bytes of the line
RxRoom(q, line) == RxBytes(q) + Len(line) <= UART_BUFFER_SIZE

\* the meter sends its next line: the UART's interrupt handler puts the bytes
\* into the RX buffer, or loses them when it is full
MeterSends ==
    /\ wire # <<>>
    /\ wire' = Tail(wire)
    /\ rx' = IF RxRoom(rx, Head(wire).line) THEN Append(rx, Head(wire)) ELSE rx
    /\ UNCHANGED <<rpc, meter_sentence_buf, position, chunk, discards, gpc, result,
                   raw_buf, used_stale, warned, programVars>>

\* SENSE begins and get_data is called: a zeroed buffer, a default result, the
\* start sequence is written; a meter that is not sending answers with the
\* telegram t, or not at all
SenseCall(t) ==
    /\ SenseBegin
    /\ gpc = "idle"
    /\ gpc' = "reading"
    /\ meter_sentence_buf' = EmptyBuffer
    /\ result' = MeterDataDefault
    /\ rx' = Marked(rx, FALSE)
    /\ t # <<>> => Len(rx) <= MaxBacklog
    /\ wire' = IF wire = <<>> THEN Fresh(t) ELSE Marked(wire, FALSE)
    /\ used_stale' = FALSE
    /\ warned' = FALSE
    /\ discards' = 0
    /\ UNCHANGED <<rpc, position, chunk, raw_buf>>

\* one pass of get_data's loop on the line at the head of the RX buffer; on a
\* 1.8 or 2.8 sentence get_data returns and main takes result.total_in
LineRead ==
    /\ mpc = "meter_wait"
    /\ gpc = "reading"
    /\ rx # <<>>
    /\ rx' = Tail(rx)
    /\ used_stale' = (used_stale \/ ~Head(rx).fresh)
    /\ raw_buf' = SentenceBuffer(Head(rx).line)
    /\ LET sentence == Sanitize(SentenceBuffer(Head(rx).line))
           handled == Handled(result, sentence)
       IN  /\ meter_sentence_buf' = sentence
           /\ result' = handled
           /\ IF EndsRead(SentenceKind(sentence))
              THEN /\ gpc' = "idle"
                   /\ MeterReturn(Some(handled.total_in))
              ELSE /\ gpc' = "reading"
                   /\ UNCHANGED programVars
    /\ UNCHANGED <<rpc, position, chunk, discards, wire, warned>>

\* METER_SENTENCE_LENGTH bytes without a line feed arrive and are read: the
\* buffer fills and is discarded
JunkRead ==
    /\ mpc = "meter_wait"
    /\ gpc = "reading"
    /\ rx = <<>>
    /\ wire = <<>>
    /\ discards' = Min(discards + 1, MaxDiscards)
    /\ meter_sentence_buf' = Discard(meter_sentence_buf)
    /\ UNCHANGED <<rpc, position, chunk, gpc, result, raw_buf, linkVars, programVars>>

\* uart.read returns an error: it is logged and the read is repeated
ReadFails ==
    /\ mpc = "meter_wait"
    /\ gpc = "reading"
    /\ rx = <<>>
    /\ warned' = TRUE
    /\ UNCHANGED <<rpc, meter_sentence_buf, position, chunk, discards, gpc, result,
                   raw_buf, rx, wire, used_stale, programVars>>

\* METER_TIMEOUT expires while the read is pending: get_data's future is
\* dropped and main takes None
MeterTimeout ==
    /\ mpc = "meter_wait"
    /\ gpc = "reading"
    /\ rx = <<>>
    /\ gpc' = "idle"
    /\ meter_sentence_buf' = EmptyBuffer
    /\ result' = MeterDataDefault
    /\ MeterReturn(NoReading)
    /\ UNCHANGED <<rpc, position, chunk, discards, raw_buf, linkVars>>

NextGetData ==
    \/ GetDataCall
    \/ \E s \in Sentences : SentenceRead(s)

\* get_data on every sequence of the sentences
SpecGetData == InitMeterReader /\ [][NextGetData]_vars

\* ------------------------------------------------------------------------
\* Specifications
\* ------------------------------------------------------------------------
Next ==
    \/ \E ch \in PulseInputs : PulseStart(ch)
    \/ \E ch \in PulseInputs : BounceLow(ch)
    \/ \E ch \in PulseInputs : BounceHigh(ch)
    \/ \E ch \in PulseInputs : PulseEnd(ch)
    \/ \E ch \in PulseInputs : Settle(ch)
    \/ \E ch \in PulseInputs : CountHigh(ch)
    \/ \E ch \in PulseInputs : SeeLow(ch)
    \/ \E r \in JoinOutcomes : JoinResp(r)
    \/ BackoffDone
    \/ BootMerge
    \/ InitMeter
    \/ SenseStart
    \/ \E m \in {NoReading} \cup {Some(v) : v \in MeterReadings} : MeterDone(m)
    \/ TempDone
    \/ Encode
    \/ \E o \in SendOutcomes, dl \in Downlinks \cup {NoDownlink} : SendDone(o, dl)
    \/ React
    \/ Persist
    \/ SleepDone

Spec == Init /\ [][Next]_vars

\* a first life, power losses, and every later life up to the entry of the loop
NextRoundTrip ==
    \/ Reset
    \/ (resets = 0 \/ mpc # "uart_init") /\ Next

SpecRoundTrip == Init /\ [][NextRoundTrip]_vars

\* pulses, uplink cycles whose send brings no downlink, and power losses at any
\* point
NextPowerLoss ==
    \/ Reset
    \/ \E ch \in PulseInputs : PulseStart(ch)
    \/ \E ch \in PulseInputs : PulseEnd(ch)
    \/ \E ch \in PulseInputs : Settle(ch)
    \/ \E ch \in PulseInputs : CountHigh(ch)
    \/ \E ch \in PulseInputs : SeeLow(ch)
    \/ \E r \in JoinOutcomes : JoinResp(r)
    \/ BackoffDone
    \/ BootMerge
    \/ InitMeter
    \/ SenseStart
    \/ \E m \in {NoReading} \cup {Some(v) : v \in MeterReadings} : MeterDone(m)
    \/ TempDone
    \/ Encode
    \/ \E o \in SendOutcomes : SendDone(o, NoDownlink)
    \/ React
    \/ Persist
    \/ SleepDone

SpecPowerLoss == Init /\ [][NextPowerLoss]_vars

\* main's cycle with the serial link and get_data under its timeout, the
\* counter tasks running, on a network that accepts the join
NextMeterCycle ==
    \/ \E ch \in PulseInputs : PulseStart(ch)
    \/ \E ch \in PulseInputs : PulseEnd(ch)
    \/ \E ch \in PulseInputs : Settle(ch)
    \/ \E ch \in PulseInputs : CountHigh(ch)
    \/ \E ch \in PulseInputs : SeeLow(ch)
    \/ JoinResp("JoinSuccess")
    \/ BootMerge
    \/ InitMeter
    \/ \E t \in Telegrams \cup {<<>>} : SenseCall(t)
    \/ MeterSends
    \/ LineRead
    \/ JunkRead
    \/ ReadFails
    \/ MeterTimeout
    \/ TempDone
    \/ Encode
    \/ SendDone("RxComplete", NoDownlink)
    \/ React
    \/ Persist
    \/ SleepDone

SpecMeterCycle == InitMeterReader /\ [][NextMeterCycle]_vars

\* a line is buffered for the pending read: LineRead can be taken
LineBuffered == mpc = "meter_wait" /\ gpc = "reading" /\ rx # <<>>

\* main runs when it can (weak fairness of LineRead, its enabling condition
\* written out), the timeout of the meter read expires, and the temperature
\* samples complete
FairMeterCycle ==
    /\ SpecMeterCycle
    /\ ([]<>(~LineBuffered) \/ []<><<LineRead>>_vars)
    /\ WF_vars(MeterTimeout)
    /\ WF_vars(TempDone)
    /\ WF_vars(Encode)

\* main's cycle and blink_task, on a network that accepts the join and a
\* meter that stays silent
NextBlink ==
    \/ JoinResp("JoinSuccess")
    \/ BootMerge
    \/ InitMeter
    \/ SenseStart
    \/ MeterDone(NoReading)
    \/ TempDone
    \/ Encode
    \/ \E o \in {"RxComplete", "NoAck"} : SendDone(o, NoDownlink)
    \/ React
    \/ Persist
    \/ SleepDone
    \/ BlinkToggle
    \/ BlinkAdopt
    \/ BlinkTimeout

SpecBlink == InitMeterReader /\ [][NextBlink]_vars

\* the executor runs main when its timer fires, and the network accepts a join
\* request again and again
FairSpec ==
    /\ Spec
    /\ WF_vars(BackoffDone)
    /\ SF_vars(JoinResp("JoinSuccess"))

\* ------------------------------------------------------------------------
\* Claims
\* ------------------------------------------------------------------------
JoinPcs == {"join", "backoff"}

\* the step is counter_task ch incrementing its counter
CountStep(ch) == cpc[ch] = "wait_high" /\ cpc'[ch] # cpc[ch]

\* the high phase now on the input has been seen by the task
InProgress(ch) == IF input[ch] = 1 /\ seen[ch] THEN 1 ELSE 0

\* C1 (as stated): counter_task increments once per pulse whatever the input
\* does during the pulse: a step that increments the counter is the first
\* increment since the pulse began.
C1_OneIncrementPerPulse ==
    [][\A ch \in PulseInputs : CountStep(ch) => ~pulseCounted[ch]]_vars

C1_ObservedPhases ==
    \A ch \in PulseInputs : counted[ch] = completed[ch] + InProgress(ch)

C1_TaskStep ==
    \A ch \in PulseInputs :
        cpc'[ch] # cpc[ch] =>
            CASE cpc[ch] = "wait_high" ->
                     /\ input[ch] = 1
                     /\ cpc'[ch] = "wait_low"
                     /\ S0_COUNTERS' = [S0_COUNTERS EXCEPT ![ch] = (@ + 1) % U64Mod]
              [] cpc[ch] = "wait_low" ->
                     /\ input[ch] = 0
                     /\ cpc'[ch] = "wait_high"
                     /\ S0_COUNTERS' = S0_COUNTERS
              [] OTHER -> S0_COUNTERS' = S0_COUNTERS

\* C1 (amended): counter_task increments its channel's counter by exactly one
\* for each high phase of the input it observes: the increments made equal the
\* observed high phases that have ended plus the one in progress; it increments
\* only on finding the input high, re-arms only on finding it low, and touches
\* no other channel's counter.  A bounce that takes the input low and high
\* again within one pulse is a further high phase.
C1_OneIncrementPerObservedHighPhase ==
    []C1_ObservedPhases /\ [][C1_TaskStep]_vars

\* two high phases observed and ended, one of them a bounce within a pulse
C1_Witness ==
    counted[0] = 2 /\ completed[0] = 2 /\ pulse[0] /\ input[0] = 0

\* the step applies a valid downlink override to channel ch
OverrideStep(ch) ==
    /\ mpc = "react"
    /\ mpc' # "react"
    /\ resp = "DownlinkReceived"
    /\ downlink.kind = "Some"
    /\ downlink.fport - 1 = ch
    /\ Len(downlink.data) = DOWNLINK_LEN

\* the step is an addition to channel ch (a pulse increment or the boot merge)
\* that passes U64_MAX and wraps
WrapStep(ch) ==
    \/ /\ ch \in PulseInputs
       /\ CountStep(ch)
       /\ S0_COUNTERS[ch] = U64_MAX
       /\ S0_COUNTERS'[ch] = 0
    \/ /\ mpc = "merge"
       /\ mpc' = "uart_init"
       /\ S0_COUNTERS[ch] + record[ch] >= U64Mod
       /\ S0_COUNTERS'[ch] = S0_COUNTERS[ch] + record[ch] - U64Mod

\* C2 (as stated): a live counter never decreases from one state to the next
\* except in the step that applies a valid downlink override to that channel.
C2_DecreasesOnlyByOverride ==
    [][\A ch \in Channels :
          S0_COUNTERS'[ch] < S0_COUNTERS[ch] => OverrideStep(ch)]_vars

\* C2 (amended): a live counter never decreases from one state to the next
\* except in the step that applies a valid downlink override to that channel,
\* or in a step whose addition to it (a pulse increment or the boot merge)
\* passes 2^64 - 1 and wraps.
C2_DecreasesOnlyByOverrideOrWrap ==
    [][\A ch \in Channels :
          S0_COUNTERS'[ch] < S0_COUNTERS[ch] => OverrideStep(ch) \/ WrapStep(ch)]_vars

\* channel 0 was persisted as U64_MAX, has counted no pulse since boot, and an
\* override has just lowered it
C2_Witness ==
    /\ mpc = "persist"
    /\ record[0] = U64_MAX
    /\ counted[0] = 0
    /\ S0_COUNTERS[0] = ByteBase

\* pulses counter_task ch has counted since boot
Counted(ch) == IF ch \in PulseInputs THEN counted[ch] ELSE 0

\* C3: the record written by PERSIST, read back and merged at the next boot,
\* gives every channel its written value plus the pulses its counter task has
\* counted since that boot, before the merge (the sum is a u64 sum); with no
\* pulse counted the written values are reproduced exactly.
C3_RoundTrip ==
    mpc = "uart_init" =>
        \A ch \in Channels : S0_COUNTERS[ch] = (record[ch] + Counted(ch)) % U64Mod

\* after a power loss the merge has added a written value to a counted pulse
C3_Witness ==
    /\ resets = 1
    /\ mpc = "uart_init"
    /\ record[0] = ByteBase
    /\ counted[0] = 1
    /\ S0_COUNTERS[0] = ByteBase + 1

\* C4: the boot merge has not happened while main is in the boot join or at
\* the flash read, and has happened exactly once from then on: in every phase
\* of every cycle, and during and after a re-join.
C4_MergeOncePerBoot ==
    /\ (Phase = "BOOT" /\ mpc # "uart_init") => mergeCount = 0
    /\ (Phase # "BOOT" \/ mpc = "uart_init") => mergeCount = 1

\* a re-join after a session expiry has returned
C4_Witness ==
    /\ mpc = "persist"
    /\ joinCaller = "react"
    /\ join_success
    /\ attemptNo = 2
    /\ mergeCount = 1

\* the downlink at hand is invalid: its channel index is outside [0, N) or its
\* payload is not 8 bytes long
InvalidDownlink ==
    /\ mpc = "react"
    /\ resp = "DownlinkReceived"
    /\ downlink.kind = "Some"
    /\ \/ downlink.fport - 1 \notin Channels
       \/ Len(downlink.data) # DOWNLINK_LEN

\* C5: an invalid downlink is ignored: the REACT step that handles it leaves
\* all counters unchanged and the cycle goes on to PERSIST.
C5_InvalidDownlinkIgnored ==
    [][(InvalidDownlink /\ mpc' # mpc) =>
          (S0_COUNTERS' = S0_COUNTERS /\ mpc' = "persist")]_vars

\* the downlink at hand is valid
ValidDownlink ==
    /\ mpc = "react"
    /\ resp = "DownlinkReceived"
    /\ downlink.kind = "Some"
    /\ downlink.fport - 1 \in Channels
    /\ Len(downlink.data) = DOWNLINK_LEN

\* the payload read as a little-endian number: byte i weighs ByteBase^(i-1)
LittleEndian(d) ==
    d[1] + ByteBase * (d[2] + ByteBase * (d[3] + ByteBase * (d[4] + ByteBase *
        (d[5] + ByteBase * (d[6] + ByteBase * (d[7] + ByteBase * d[8]))))))

\* C6: the REACT step that handles a valid downlink overwrites exactly the
\* addressed counter with the payload read little-endian, and leaves the others
\* unchanged.
C6_ValidDownlinkOverwrites ==
    [][(ValidDownlink /\ mpc' # mpc) =>
          S0_COUNTERS' = [S0_COUNTERS EXCEPT
                             ![downlink.fport - 1] = LittleEndian(downlink.data)]]_vars

\* channel 0 had counted one pulse on a cold start and now holds the all-ones
\* payload (adding would have wrapped to 0)
C6_Witness ==
    /\ mpc = "persist"
    /\ record[0] = 0
    /\ counted[0] = 1
    /\ S0_COUNTERS[0] = U64_MAX

\* C7: the program halts only through the frame-size check.
C7_HaltsOnlyBySizeCheck ==
    mpc = "halted" => haltCause = "frame_size"

C8_ReturnedAccepted ==
    mpc \notin JoinPcs => join_success

C8_JoinStep ==
    /\ (mpc \in JoinPcs /\ mpc' \notin JoinPcs) => (mpc = "join" /\ join_success')
    /\ (mpc = "join" /\ mpc' # "join" /\ ~join_success') => mpc' = "backoff"
    /\ (mpc = "backoff" /\ mpc' # "backoff") => mpc' = "join"

\* C8: join_network returns only from an attempt that was accepted; an attempt
\* that was not accepted is always followed by a backoff and a further attempt,
\* whatever the attempt count; and with the network accepting again and again,
\* join_network returns.
C8_JoinReturnsOnlyOnSuccess ==
    /\ []C8_ReturnedAccepted
    /\ [][C8_JoinStep]_vars
    /\ (mpc \in JoinPcs ~> mpc \notin JoinPcs)

\* join_network has returned to boot from its fourth attempt
C8_Witness ==
    /\ mpc = "merge"
    /\ attemptNo = 4
    /\ join_success

\* the attempt after which the last backoff of the invocation began (0: none)
LastFailed == IF mpc = "backoff" THEN attemptNo ELSE attemptNo - 1

\* C9: the first attempt of an invocation is made without a wait, and the wait
\* after the n-th attempt is 2^(n-1), saturating at 2^11 = 2048.
C9_BackoffSchedule ==
    mpc \in JoinPcs =>
        backoff_secs = IF LastFailed = 0 THEN 0 ELSE Min(2 ^ (LastFailed - 1), 2 ^ 11)

\* the wait after the 13th attempt: the schedule has saturated
C9_Witness ==
    /\ mpc = "backoff"
    /\ attemptNo = 13
    /\ backoff_secs = 2048

\* the order of the phases of a cycle
CycleOrder ==
    { <<"BOOT", "SENSE">>, <<"SENSE", "ENCODE">>, <<"ENCODE", "SEND">>,
      <<"SEND", "REACT">>, <<"REACT", "PERSIST">>, <<"PERSIST", "SLEEP">>,
      <<"SLEEP", "SENSE">> }

\* C10: every cycle passes through SENSE, ENCODE, SEND, REACT, PERSIST, SLEEP
\* in this order, whatever the send outcome, and the record is written exactly
\* in the step that ends PERSIST, with the snapshot of the live counters.
C10_PhaseOrder ==
    [][/\ Phase' # Phase => <<Phase, Phase'>> \in CycleOrder
       /\ (Phase = "PERSIST" /\ Phase' = "SLEEP") =>
              record' = [ch \in Channels |-> S0_COUNTERS[ch]]
       /\ record' # record => Phase = "PERSIST"]_vars

\* C11 (as stated): every frame handed to the radio is sent with delivery
\* confirmation requested.
C11_SentConfirmed ==
    send_call.kind = "Some" => send_call.confirmed = TRUE

\* C11 (amended): a send call is in flight exactly during SEND, and every frame
\* handed to the radio is the encoded Transmission, sent on port 1 with no
\* delivery confirmation requested.
C11_SentUnconfirmed ==
    /\ (mpc = "send_wait") = (send_call.kind = "Some")
    /\ send_call.kind = "Some" =>
          /\ send_call.confirmed = FALSE
          /\ send_call.fport = 1
          /\ send_call.buf = encode_into_slice(to_transmit)

\* a frame is with the radio, sent unconfirmed
C11_Witness ==
    /\ mpc = "send_wait"
    /\ send_call.kind = "Some"
    /\ ~send_call.confirmed

\* main is inside the join_network call of the SessionExpired arm
Rejoining == mpc \in JoinPcs /\ joinCaller = "react"

C12_RejoinStep ==
    /\ (mpc = "react" /\ mpc' # mpc /\ resp = "SessionExpired") =>
          (mpc' = "join" /\ joinCaller' = "react" /\ ~join_success')
    /\ Rejoining => (send_call' = NoCall /\ mpc' \in JoinPcs \cup {"persist"})
    /\ (Rejoining /\ mpc' \notin JoinPcs) => (join_success' /\ mpc' = "persist")

\* C12: the REACT step on a session-expired outcome enters join_network; while
\* it runs no send is issued and the cycle does not move on; main leaves it only
\* from an accepted attempt, into PERSIST of the same cycle.
C12_RejoinBeforeNextCycle ==
    /\ [](Rejoining => (send_call = NoCall /\ resp = "SessionExpired"))
    /\ [][C12_RejoinStep]_vars

\* the re-join has returned from its second attempt, after one backoff
C12_Witness ==
    /\ mpc = "persist"
    /\ resp = "SessionExpired"
    /\ join_success
    /\ backoff_secs = 1

\* the send outcome at hand carries nothing to apply
QuietOutcome ==
    \/ resp \in {"NoAck", "RxComplete", "Err"}
    \/ resp = "DownlinkReceived" /\ downlink = NoDownlink

\* C13: on a send that was not acknowledged, brought no downlink or failed, the
\* REACT step changes no counter and issues no send, and the cycle goes on to
\* PERSIST, SLEEP and the next SENSE.
C13_QuietOutcomeContinues ==
    [][/\ (mpc = "react" /\ mpc' # mpc /\ QuietOutcome) =>
             (S0_COUNTERS' = S0_COUNTERS /\ mpc' = "persist" /\ send_call' = NoCall)
       /\ (mpc = "persist" /\ mpc' # mpc /\ resp \in {"NoAck", "RxComplete", "Err"}) =>
             (mpc' = "sleep_wait" /\ send_call' = NoCall)
       /\ (mpc = "sleep_wait" /\ mpc' # mpc) => mpc' = "sense"]_vars

\* REACT has passed a failed send on to PERSIST with a counted pulse kept
C13_Witness ==
    /\ mpc = "persist"
    /\ resp = "Err"
    /\ counted[0] = 1
    /\ S0_COUNTERS[0] = record[0] + 1

\* C14: a meter read that timed out does not halt the cycle; the frame built
\* has the NaN sentinel in its main-meter field exactly then, and each channel
\* field is the counter loaded in SENSE over the impulses-per-kWh constant.
C14_TimeoutFrame ==
    [][/\ (mpc = "meter_wait" /\ mpc' # mpc) => mpc' = "temp_wait"
       /\ (mpc = "temp_wait" /\ mpc' # mpc) =>
             /\ mpc' = "encode"
             /\ meter_energy' = meter_energy
             /\ counter_kwh' =
                   Some([ch \in Channels |->
                            [num |-> S0_COUNTERS[ch], den |-> S0_IMP_PER_KWH]])
       /\ (mpc = "encode" /\ mpc' # mpc) =>
             /\ mpc' = "send_wait"
             /\ (to_transmit'.main_meter_kwh = NaN) = (meter_energy = NoReading)
             /\ meter_energy # NoReading => to_transmit'.main_meter_kwh = meter_energy
             /\ \A ch \in Channels :
                   to_transmit'.counter_kwh[ch] = counter_kwh.val[ch]]_vars

\* the frame of a cycle whose meter read timed out, with two pulses on channel 0
C14_Witness ==
    /\ mpc = "send_wait"
    /\ to_transmit.main_meter_kwh = NaN
    /\ to_transmit.counter_kwh[0] = [num |-> record[0] + 2, den |-> S0_IMP_PER_KWH]

\* C18: whatever the inputs, the encoded frame has the one length of nine f32
\* fields, within the 49 bytes of DR0, and the size checks never halt the
\* program.
C18_FrameSize ==
    /\ haltCause # "frame_size"
    /\ send_call.kind = "Some" =>
          /\ Len(send_call.buf) = TRANSMISSION_FIELDS * F32_BYTES
          /\ Len(send_call.buf) <= MAX_DR0_PAYLOAD
          /\ \A i \in 1..F32_BYTES : send_call.buf[2 * F32_BYTES + i].of = to_transmit.main_meter_kwh

\* an encoded frame whose main-meter field is the NaN sentinel
C18_Witness ==
    /\ send_call.kind = "Some"
    /\ send_call.buf[2 * F32_BYTES + 1].of = NaN
    /\ Len(send_call.buf) = 36

\* C19: once a downlink has overridden a channel's counter, the counter is the
\* downlink value plus the increments its task has made since (a u64 wrapping
\* sum), in every interleaving: the override is in effect at once and no later
\* increment is lost.
C19_OverrideThenIncrements ==
    /\ [](\A ch \in PulseInputs :
            last_override[ch].kind = "Some" =>
                S0_COUNTERS[ch] =
                   (last_override[ch].val + (counted[ch] - last_override[ch].at)) % U64Mod)
    /\ [][\A ch \in PulseInputs :
             (ValidDownlink /\ mpc' # mpc /\ downlink.fport - 1 = ch) =>
                 /\ S0_COUNTERS'[ch] = LittleEndian(downlink.data)
                 /\ last_override'[ch] =
                       [kind |-> "Some", val |-> LittleEndian(downlink.data),
                        at |-> counted[ch]]]_vars

\* a pulse counted before the override and one after it
C19_Witness ==
    /\ last_override[0].kind = "Some"
    /\ last_override[0].val = ByteBase
    /\ last_override[0].at = 1
    /\ counted[0] = 2
    /\ S0_COUNTERS[0] = ByteBase + 1

\* the bytes read since the buffer was last empty, zero-padded to the buffer
Padded(bytes) ==
    [i \in 1..METER_SENTENCE_LENGTH |-> IF i <= Len(bytes) THEN bytes[i] ELSE 0]

C15_Buffer ==
    /\ rpc # "panicked"
    /\ rpc \in {"reading", "returned"} =>
          /\ position = Len(chunk)
          /\ meter_sentence_buf = Padded(chunk)
          /\ \A i \in 1..(Len(chunk) - 1) : chunk[i] # LINE_FEED
    /\ rpc = "reading" =>
          /\ position < METER_SENTENCE_LENGTH
          /\ position > 0 => chunk[position] # LINE_FEED
    /\ rpc = "returned" =>
          /\ position \in 1..METER_SENTENCE_LENGTH
          /\ chunk[position] = LINE_FEED

C15_ReadStep ==
    /\ (rpc = "reading" /\ rpc' # "reading") =>
          (rpc' = "returned" /\ chunk' = Append(chunk, LINE_FEED))
    /\ (rpc = "reading" /\ chunk' # chunk) =>
          \/ \E b \in 0..255 : chunk' = Append(chunk, b)
          \/ /\ chunk' = <<>>
             /\ Len(chunk) = METER_SENTENCE_LENGTH - 1
             /\ rpc' = "reading"

\* C15: the buffer holds exactly the bytes read since it was last empty, one
\* appended per read; the read returns exactly when the byte appended is a line
\* feed; a buffer filled without one is emptied and reading goes on, within the
\* buffer's bounds.
C15_Framing ==
    []C15_Buffer /\ [][C15_ReadStep]_vars

\* a sentence returned after two full buffers were discarded
C15_Witness ==
    /\ rpc = "returned"
    /\ discards = 2
    /\ position = 3
    /\ meter_sentence_buf[3] = LINE_FEED

\* the run between the first '(' of s and the first close after it
Field(s, close) ==
    LET Delimits(a, b) ==
            /\ a < b
            /\ s[a] = Code["("]
            /\ s[b] = Code[close]
            /\ \A j \in 1..(a - 1) : s[j] # Code["("]
            /\ \A j \in (a + 1)..(b - 1) : s[j] # Code[close]
    IN  IF \E a, b \in 1..Len(s) : Delimits(a, b)
        THEN LET ab == CHOOSE ab \in (1..Len(s)) \X (1..Len(s)) : Delimits(ab[1], ab[2])
             IN  [ok |-> TRUE, run |-> SubSeq(s, ab[1] + 1, ab[2] - 1)]
        ELSE [ok |-> FALSE, run |-> <<>>]

AllDigits(run) == run # <<>> /\ \A i \in 1..Len(run) : run[i] \in 48..57

\* the number a digit run denotes
RECURSIVE RunValue(_)
RunValue(run) ==
    IF run = <<>> THEN 0
    ELSE 10 * RunValue(SubSeq(run, 1, Len(run) - 1)) + (run[Len(run)] - 48)

\* the integer and fractional runs of an energy field, split at its first '.'
EnergyParts(run) ==
    IF \E i \in 1..Len(run) : run[i] = Code["."]
    THEN LET dot == CHOOSE i \in 1..Len(run) :
                        run[i] = Code["."] /\ \A j \in 1..(i - 1) : run[j] # Code["."]
         IN  [ok |-> TRUE, int |-> SubSeq(run, 1, dot - 1),
              frac |-> SubSeq(run, dot + 1, Len(run))]
    ELSE [ok |-> FALSE, int |-> <<>>, frac |-> <<>>]

WellFormedId(s) == Field(s, ")").ok /\ AllDigits(Field(s, ")").run)

WellFormedEnergy(s) ==
    /\ Field(s, "*").ok
    /\ EnergyParts(Field(s, "*").run).ok
    /\ AllDigits(EnergyParts(Field(s, "*").run).int)
    /\ AllDigits(EnergyParts(Field(s, "*").run).frac)

\* a run the integer parser takes: digits after at most one leading '+', the
\* value within the type
Unsigned(run) == IF run # <<>> /\ run[1] = Code["+"] THEN Tail(run) ELSE run
AcceptedRun(run, max) ==
    /\ AllDigits(Unsigned(run))
    /\ RunValue(Unsigned(run)) <= max

AcceptedId(s) == Field(s, ")").ok /\ AcceptedRun(Field(s, ")").run, U64_MAX)

AcceptedEnergy(s) ==
    /\ Field(s, "*").ok
    /\ EnergyParts(Field(s, "*").run).ok
    /\ AcceptedRun(EnergyParts(Field(s, "*").run).int, U32_MAX)
    /\ AcceptedRun(EnergyParts(Field(s, "*").run).frac, U32_MAX)

\* the sentence begins with the characters of prefix
Begins(s, prefix) == SubSeq(s, 1, Len(prefix)) = Str(prefix)

\* the step is a pass of get_data's loop
ReadsSentence == gpc = "reading" /\ meter_sentence_buf' # EmptyBuffer

\* C16 (as stated): a malformed numeric field (a delimiter missing, a character
\* that is no digit, no decimal point) makes the parser return no value, leaves
\* the field of the result at its default of zero, and the sentence is
\* sequenced as a well-formed one of its kind.
C16_MalformedFieldLeftDefault ==
    [][ReadsSentence =>
         LET s == meter_sentence_buf' IN
         /\ (Begins(s, <<"C", ".", "1">>) /\ ~WellFormedId(s)) =>
               /\ parse_meter_id(s) = NoValue
               /\ result'.meter_id = 0
               /\ gpc' = "reading"
         /\ (Begins(s, <<"1", ".", "8", ".", "0">>) /\ ~WellFormedEnergy(s)) =>
               /\ parse_energy_value(s) = NoValue
               /\ result'.total_in = F32(0, 1)
               /\ gpc' = "returned"
         /\ (Begins(s, <<"2", ".", "8">>) /\ ~WellFormedEnergy(s)) =>
               /\ parse_energy_value(s) = NoValue
               /\ result'.total_out = F32(0, 1)
               /\ gpc' = "returned"]_vars

\* C16 (amended): the parser returns no value exactly for a field it rejects
\* (a delimiter missing, no decimal point, an empty run, a character that is
\* neither a digit nor one leading '+' of a run, a value beyond the integer
\* type); the result is then left as it was, and the sentence is sequenced as
\* any other of its kind.
C16_RejectedFieldKeepsResult ==
    [][ReadsSentence =>
         LET s == meter_sentence_buf' IN
         /\ (parse_meter_id(s) = NoValue) = ~AcceptedId(s)
         /\ (parse_energy_value(s) = NoValue) = ~AcceptedEnergy(s)
         /\ (Begins(s, <<"C", ".", "1">>) /\ ~AcceptedId(s)) =>
               (result' = result /\ gpc' = "reading")
         /\ (Begins(s, <<"1", ".", "8", ".", "0">>) /\ ~AcceptedEnergy(s)) =>
               (result' = result /\ gpc' = "returned")
         /\ (Begins(s, <<"2", ".", "8">>) /\ ~AcceptedEnergy(s)) =>
               (result' = result /\ gpc' = "returned")]_vars

\* a read that kept its meter id and returned on a 1.8.0 sentence without a
\* decimal point
C16_Witness ==
    /\ gpc = "returned"
    /\ Begins(meter_sentence_buf, <<"1", ".", "8", ".", "0", "(", "1", "2", "5", "*">>)
    /\ result.meter_id = 74
    /\ result.total_in = F32(0, 1)

\* the sentence get_data holds
SentenceAtHand == gpc \in {"reading", "returned"} /\ meter_sentence_buf # EmptyBuffer

\* int + frac / 10^(number of frac digits)
Decimal(int, frac) == F32(RunValue(int) * 10 ^ Len(frac) + RunValue(frac), 10 ^ Len(frac))

\* C17 (as stated): for every sentence with '(' digits ')' parse_meter_id
\* returns the number the digits denote, and for every sentence with
\* '(' int '.' frac '*' parse_energy_value returns int + frac / 10^digits.
C17_ParsersOnEveryRun ==
    SentenceAtHand =>
        LET s == meter_sentence_buf
            e == EnergyParts(Field(s, "*").run)
        IN  /\ WellFormedId(s) =>
                  parse_meter_id(s) = Some(RunValue(Field(s, ")").run))
            /\ WellFormedEnergy(s) =>
                  parse_energy_value(s) = Some(Decimal(e.int, e.frac))

\* C17 (amended): the same, for digit runs whose value is within the integer
\* type parsed into (u64 for the meter id, u32 for each part of an energy
\* value); a run beyond it yields no value.
C17_ParsersWithinWidth ==
    SentenceAtHand =>
        LET s == meter_sentence_buf
            e == EnergyParts(Field(s, "*").run)
        IN  /\ WellFormedId(s) =>
                  parse_meter_id(s) =
                     IF RunValue(Field(s, ")").run) <= U64_MAX
                     THEN Some(RunValue(Field(s, ")").run)) ELSE NoValue
            /\ WellFormedEnergy(s) =>
                  parse_energy_value(s) =
                     IF RunValue(e.int) <= U32_MAX /\ RunValue(e.frac) <= U32_MAX
                     THEN Some(Decimal(e.int, e.frac)) ELSE NoValue

\* 1.8.0(012.05*kWh) read as 12.05 after C.1(0074) was read as 74
C17_Witness ==
    /\ gpc = "returned"
    /\ Begins(meter_sentence_buf,
              <<"1", ".", "8", ".", "0", "(", "0", "1", "2", ".", "0", "5", "*">>)
    /\ result.total_in = F32(1205, 100)
    /\ result.meter_id = 74

\* C20: a C.1 sentence changes at most the meter id and reading goes on; a
\* sentence beginning 1.8 or 2.8 ends the read, which returns with that
\* sentence in the buffer, only 1.8.0 setting energy-in and 2.8 energy-out;
\* any other sentence changes nothing and reading goes on.
C20_Classification ==
    [][/\ ReadsSentence =>
            LET s == meter_sentence_buf' IN
            /\ Begins(s, <<"C", ".", "1">>) =>
                  /\ gpc' = "reading"
                  /\ result' \in {result, [result EXCEPT !.meter_id = result'.meter_id]}
            /\ Begins(s, <<"1", ".", "8">>) =>
                  /\ gpc' = "returned"
                  /\ result' \in {result, [result EXCEPT !.total_in = result'.total_in]}
                  /\ ~Begins(s, <<"1", ".", "8", ".", "0">>) => result' = result
            /\ Begins(s, <<"2", ".", "8">>) =>
                  /\ gpc' = "returned"
                  /\ result' \in {result, [result EXCEPT !.total_out = result'.total_out]}
            /\ (~Begins(s, <<"C", ".", "1">>) /\ ~Begins(s, <<"1", ".", "8">>)
                   /\ ~Begins(s, <<"2", ".", "8">>)) =>
                  (gpc' = "reading" /\ result' = result)
       /\ (gpc = "returned" /\ meter_sentence_buf' # meter_sentence_buf) =>
             (gpc' = "reading" /\ meter_sentence_buf' = EmptyBuffer
                 /\ result' = MeterDataDefault)]_vars

\* the read ended on a 1.8.1 sentence: the meter id read before is returned,
\* energy-in is not set
C20_Witness ==
    /\ gpc = "returned"
    /\ Begins(meter_sentence_buf, <<"1", ".", "8", ".", "1">>)
    /\ result.meter_id = 12
    /\ result.total_in = F32(0, 1)

\* bit 7 of the byte b is set
TopBitSet(b) == (b \div 2 ^ 7) % 2 = 1

\* C23: once a sentence has been read, the buffer get_data classifies is the
\* buffer read_meter_sentence returned with exactly the bytes whose top bit is
\* set (0x80..0xFF) replaced by zero, every other byte (0x00..0x7F) unchanged.
C23_ZeroesExactlyTopBit ==
    gpc \in {"reading", "returned"} =>
        \A i \in 1..METER_SENTENCE_LENGTH :
            meter_sentence_buf[i] = IF TopBitSet(raw_buf[i]) THEN 0 ELSE raw_buf[i]

\* C22, the slot: whenever PERIOD holds a value it is the value written last.
C22_SlotHoldsLatest ==
    PERIOD.kind = "Some" => (signalled.kind = "Some" /\ PERIOD.val = signalled.val)

\* C22, the writer: each step of main that writes PERIOD can be taken in every
\* state in which main is at it, whatever blink_task and the slot are at.
C22_WriterNotBlocked ==
    /\ mpc = "sense" => ENABLED SenseStart
    /\ mpc = "encode" => ENABLED Encode
    /\ mpc = "persist" => ENABLED Persist

\* C22, the steps: a write leaves exactly the written value in the slot, and
\* blink_task changes its period only by taking the value out of the slot,
\* which is the value written last.
C22_SlotStep ==
    /\ (mpc \in {"sense", "encode", "persist"} /\ mpc' # mpc /\ mpc' # "halted") =>
          (PERIOD'.kind = "Some" /\ PERIOD'.val = signalled'.val)
    /\ period' # period =>
          /\ PERIOD.kind = "Some"
          /\ period' = signalled.val
          /\ PERIOD'.kind = "None"
    /\ (PERIOD.kind = "Some" /\ PERIOD'.kind = "None") => period' = PERIOD.val

\* C22: PERIOD is a single slot that a write always overwrites; blink_task
\* adopts only the value written last, a value overwritten before it was taken
\* is never adopted, and no write waits for blink_task.
C22_SingleSlotOverwrite ==
    /\ []C22_SlotHoldsLatest
    /\ []C22_WriterNotBlocked
    /\ [][C22_SlotStep]_vars

\* blink_task has adopted the sleeping period after a write had replaced a
\* value it never took
C22_Witness ==
    /\ signalled.kind = "Some"
    /\ signalled.lost
    /\ period = PERIOD_SLEEPING
    /\ PERIOD.kind = "None"
    /\ bpc = "toggle"

\* C25, one step: a step that ends PERSIST, or that changes the record, is
\* taken after the boot merge of this life, and leaves no channel's stored
\* value below what it was.
C25_WriteStep ==
    ((mpc = "persist" /\ mpc' # mpc) \/ record' # record) =>
        /\ mpc = "persist"
        /\ mergeCount >= 1
        /\ \A ch \in Channels : record'[ch] >= record[ch]

\* C25: with no downlink override, across pulses, cycles and power losses the
\* record is written only after the boot merge and no stored value decreases.
C25_RecordNeverDecreases ==
    [][C25_WriteStep]_vars

\* a second life has written a record that holds the pulses of both lives
C25_Witness ==
    /\ resets = 1
    /\ mpc = "sleep_wait"
    /\ counted[0] = 2
    /\ record[0] = 4

\* C24: every sentence a get_data call handles, its last included, was sent
\* by the meter in answer to the start sequence of that call: no line left
\* unread by an earlier call, or sent after that call had ended, is handled.
C24_OnlyAnswersToThisCall ==
    ~used_stale

\* the step is the one in which the timeout of the meter read expires
TimeoutStep == mpc = "meter_wait" /\ mpc' # mpc /\ rx' = rx

\* the step is the one in which get_data returns within the timeout
ReturnStep == mpc = "meter_wait" /\ mpc' # mpc /\ rx' # rx

\* C21, in every state: while the read is pending the timeout can expire,
\* whatever has been read, and a counter task at a high input can count.
C21_ReadPending ==
    (mpc = "meter_wait" /\ rx = <<>>) =>
        /\ ENABLED MeterTimeout
        /\ \A ch \in PulseInputs :
              (cpc[ch] = "wait_high" /\ input[ch] = 1) => ENABLED CountHigh(ch)

\* C21, the step of the timeout: the read is abandoned, the meter is marked
\* absent and SENSE goes on to the temperature; SEND is entered from ENCODE.
C21_TimeoutStep ==
    /\ TimeoutStep =>
          /\ gpc' = "idle"
          /\ meter_energy' = NoReading
          /\ mpc' = "temp_wait"
    /\ (mpc # "send_wait" /\ mpc' = "send_wait") => mpc = "encode"

\* C21: the meter read cannot block the cycle: on silence, on junk without a
\* line feed and on read errors alike the timeout abandons the read with the
\* meter marked absent, and the cycle reaches ENCODE and then SEND, the
\* counter tasks running meanwhile.
C21_ReadCannotBlock ==
    /\ []C21_ReadPending
    /\ [][C21_TimeoutStep]_vars
    /\ (mpc = "meter_wait") ~> (mpc = "send_wait")

\* SENSE has completed by the timeout after junk and a read error, and a pulse
\* was counted during the read
C21_Witness ==
    /\ mpc = "temp_wait"
    /\ meter_energy = NoReading
    /\ discards = MaxDiscards
    /\ warned
    /\ counted[0] = 1
    /\ S0_COUNTERS[0] = 1

\* the energy-in value of the sentence s: what a 1.8.0 field the parser
\* accepts denotes, zero for any other sentence
EnergyIn(s) ==
    IF Begins(s, <<"1", ".", "8", ".", "0">>) /\ AcceptedEnergy(s)
    THEN LET e == EnergyParts(Field(s, "*").run)
         IN  Decimal(Unsigned(e.int), Unsigned(e.frac))
    ELSE F32(0, 1)

\* C26, the steps: a timeout leaves None, a return leaves the energy-in value
\* of the sentence that ended the read (zero unless that is an accepted 1.8.0
\* field), which is a number; ENCODE puts NaN into the frame exactly for None
\* and the value otherwise.
C26_Step ==
    /\ TimeoutStep => meter_energy' = NoReading
    /\ ReturnStep =>
          /\ meter_energy'.kind = "Some"
          /\ meter_energy'.val = result'.total_in
          /\ meter_energy'.val.den > 0
          /\ meter_energy'.val.num * EnergyIn(meter_sentence_buf').den =
                 EnergyIn(meter_sentence_buf').num * meter_energy'.val.den
    /\ (mpc = "encode" /\ mpc' = "send_wait") =>
          /\ to_transmit'.main_meter_kwh = NaN <=> meter_energy.kind = "None"
          /\ meter_energy.kind = "Some" => to_transmit'.main_meter_kwh = meter_energy

\* C26: the main-meter field of the frame is NaN exactly when the meter read
\* timed out; when get_data returned it is the energy-in value returned, never
\* NaN, and zero when the read ended without a parsed 1.8.0 value.
C26_NaNOnlyOnTimeout ==
    [][C26_Step]_vars

\* a frame whose main-meter field is zero, the read having ended on a line
\* that is no 1.8.0 sentence
C26_Witness ==
    /\ mpc = "send_wait"
    /\ to_transmit.main_meter_kwh = Some(F32(0, 1))
    /\ ~Begins(meter_sentence_buf, <<"1", ".", "8", ".", "0">>)
    /\ meter_sentence_buf # EmptyBuffer

====
